---- MODULE Spec2Model ----
(***************************************************************************)
(* QueryBuilder (graphile-build-pg): the staged SQL SELECT assembler with  *)
(* its per-phase lock manager, lazy expression resolution, clause          *)
(* compilers and final assembler.                                          *)
(*                                                                         *)
(* The builder is a synchronous object.  Each public method is one action  *)
(* that runs the whole call, including every pre-lock callback and every   *)
(* deferred producer the call triggers (they are evaluated by the          *)
(* recursive operators lock / RunBeforeLock / CallFn / callIfNecessary).   *)
(* SQL fragments are strings; sql.join is concatenation.                   *)
(***************************************************************************)
EXTENDS Integers, Sequences, FiniteSets, TLC

VARIABLES
  locks,         \* this.locks: the set of phase names that are locked
  finalized,     \* this.finalized
  data,          \* this.data: the draft configuration
  compiledData,  \* this.compiledData: the compiled configuration
  trace,         \* history: pre-lock callbacks run, phases marked locked, producers invoked
  result,        \* the last public call: its name, arguments, error and return value
  nops,          \* number of public calls made so far
  mutation       \* the create-mutation resolver: its position, client commands, outcome

vars == <<locks, finalized, data, compiledData, trace, result, nops, mutation>>

----------------------------------------------------------------------------
(* Bounds of the model *)

\* public calls made on one builder
MaxOps == 3
\* nested lock() frames before the JavaScript engine raises its stack overflow
MaxDepth == 4

----------------------------------------------------------------------------
(* Values *)

NULL == "null"
UNDEFINED == "undefined"

\* Error kinds (the message that identifies each)
NoError == ""
DoubleLock == "has already been locked"
NoFromSource == "No from table source!"
NoFromAlias == "No from alias!"
NoFromTable == "No from table has been supplied"
NoCursorComparator == "No cursor comparator was set!"
IsLowerNotBoolean == "isLower must be specified as a boolean"
UnknownPhase == "Wasn't expecting to lock"
StackOverflow == "RangeError: Maximum call stack size exceeded"

\* The thirteen phase names lock() recognises
KnownTypes ==
  {"cursorComparator", "whereBound", "select", "orderBy", "from", "join",
   "where", "selectCursor", "cursorPrefix", "orderIsUnique", "limit",
   "offset", "flip"}

\* a phase name lock() does not recognise
BogusType == "bogus"

Types == KnownTypes \cup {BogusType}

\* SQLGen: a literal SQL fragment, or a zero-argument producer of one.
\* "fn:const" returns the fragment k; "fn:alias" reads queryBuilder.getTableAlias()
\* and returns <alias>.c
Producers == {"fn:const", "fn:alias"}
IsFn(o) == o \in Producers

\* the order lockEverything requests the locks in
LockOrder ==
  <<"from", "flip", "join", "offset", "limit", "orderBy", "cursorComparator",
    "where", "selectCursor", "select">>

\* the callbacks the constructor registers, and the bodies of user callbacks:
\* a callback is <<what it calls, the argument>>
BuiltinSelectCb == <<"builtin:select", "">>
BuiltinWhereCb == <<"builtin:where", "">>

----------------------------------------------------------------------------
(* The builder as one record, so that a call is a function of it *)

InitData ==
  [cursorPrefix |-> <<"natural">>,
   select |-> <<>>,
   selectCursor |-> NULL,
   from |-> <<>>,
   join |-> <<>>,
   where |-> <<>>,
   whereBound |-> [lower |-> <<>>, upper |-> <<>>],
   orderBy |-> <<>>,
   orderIsUnique |-> FALSE,
   limit |-> <<>>,
   offset |-> <<>>,
   flip |-> FALSE,
   beforeLock |-> [t \in Types |-> <<>>],
   cursorComparator |-> NULL]

\* this.data once the constructor has registered its two pre-lock callbacks
ConstructedData ==
  [InitData EXCEPT !.beforeLock["select"] = <<BuiltinSelectCb>>,
                   !.beforeLock["where"] = <<BuiltinWhereCb>>]

InitCompiledData ==
  [cursorPrefix |-> <<"natural">>,
   select |-> <<>>,
   selectCursor |-> NULL,
   from |-> <<>>,
   join |-> <<>>,
   where |-> <<>>,
   whereBound |-> [lower |-> <<>>, upper |-> <<>>],
   orderBy |-> <<>>,
   orderIsUnique |-> FALSE,
   limit |-> <<>>,
   offset |-> <<>>,
   flip |-> FALSE,
   cursorComparator |-> NULL]

Throw(s, e) == [s EXCEPT !.err = e, !.ret = UNDEFINED]
Return(s, v) == [s EXCEPT !.ret = v]
\* a history entry: the pre-lock callback idx of phase type ran ("cb"), the phase
\* was marked locked ("lock"), or the producer registered at position idx of the
\* phase (of its lower/upper slot) was invoked ("gen"); d is the nesting depth
Event(e, type, slot, idx, d) ==
  [ev |-> e, type |-> type, slot |-> slot, idx |-> idx, d |-> d]
Log(s, e) == [s EXCEPT !.trace = Append(@, e)]

----------------------------------------------------------------------------
(* Sequencing of the statements of a method *)

\* F applied to the value of v, with v evaluated once
Let(v, F(_)) == CHOOSE r \in {F(x) : x \in {v}} : TRUE

\* statement v, then the statements F of the builder it leaves; an error
\* thrown by v propagates and F is not run
Then(v, F(_)) == Let(v, LAMBDA x : IF x.err # NoError THEN x ELSE F(x))

----------------------------------------------------------------------------
(* Lock manager and lazy expression resolution *)

checkLock(s, type) ==
  IF type \in s.locks THEN Throw(s, DoubleLock) ELSE s

select(s, exprGen, alias) ==
  Then(checkLock(s, "select"), LAMBDA s1 :
    [s1 EXCEPT !.data.select = Append(@, <<exprGen, alias>>)])

\* what lock() stores in compiledData.cursorComparator
CompiledCursorComparator(s) == s.compiledData.cursorComparator

\* the plain draft -> compiled copies of lock()
CopyDraft(s, type) ==
  CASE type = "cursorPrefix" -> [s EXCEPT !.compiledData.cursorPrefix = s.data.cursorPrefix]
    [] type = "orderIsUnique" -> [s EXCEPT !.compiledData.orderIsUnique = s.data.orderIsUnique]
    [] type = "limit" -> [s EXCEPT !.compiledData.limit = s.data.limit]
    [] type = "offset" -> [s EXCEPT !.compiledData.offset = s.data.offset]
    [] type = "flip" -> [s EXCEPT !.compiledData.flip = s.data.flip]

RECURSIVE lock(_, _, _)
RECURSIVE RunBeforeLock(_, _, _, _)
RECURSIVE CallFn(_, _, _)
RECURSIVE CompilePhase(_, _, _)
RECURSIVE callIfNecessary(_, _, _, _, _, _)
RECURSIVE callIfNecessaryArray(_, _, _, _, _, _, _, _)
RECURSIVE getTableAlias(_, _)

\* getTableAlias() without its check for a missing source relation
getTableAlias_unchecked(s, d) ==
  Then(lock(s, "from", d), LAMBDA s1 :
    Return(s1, IF s1.compiledData.from = <<>> THEN NULL ELSE s1.compiledData.from[2]))

\* getTableAlias() that checks for the source relation before it locks
getTableAlias_checkFirst(s, d) ==
  IF "from" \notin s.locks /\ s.data.from = <<>> THEN Throw(s, NoFromTable)
  ELSE Then(lock(s, "from", d), LAMBDA s1 :
         IF s1.compiledData.from = <<>> THEN Throw(s1, NoFromTable)
         ELSE Return(s1, s1.compiledData.from[2]))

\* getTableAlias(), called at nesting depth d
getTableAlias(s, d) ==
  Then(lock(s, "from", d), LAMBDA s1 :
    IF s1.compiledData.from = <<>> THEN Throw(s1, NoFromTable)
    ELSE Return(s1, s1.compiledData.from[2]))

\* callIfNecessary(o) that never invokes o
callIfNecessary_unresolved(s, o, type, slot, idx, d) == Return(s, o)

\* callIfNecessary(o): o itself, or the result of invoking the producer o.
\* (type, slot, idx) name the registration, for the history only.
callIfNecessary(s, o, type, slot, idx, d) ==
  IF ~IsFn(o) THEN Return(s, o)
  ELSE IF o = "fn:const" THEN Return(Log(s, Event("gen", type, slot, idx, d)), "k")
  ELSE Then(getTableAlias(Log(s, Event("gen", type, slot, idx, d)), d + 1), LAMBDA s2 :
         Return(s2, s2.ret \o ".c"))

\* arr.map(callIfNecessary), and for paired = TRUE arr.map(([a, b]) =>
\* [callIfNecessary(a), b]); elements i.. are still to do, acc is the result
\* so far, returned in ret
callIfNecessaryArray(s, arr, paired, type, slot, i, acc, d) ==
  IF i > Len(arr) THEN Return(s, acc)
  ELSE Then(callIfNecessary(s, IF paired THEN arr[i][1] ELSE arr[i], type, slot, i, d),
            LAMBDA s1 :
         Let(Append(acc, IF paired THEN <<s1.ret, arr[i][2]>> ELSE s1.ret), LAMBDA acc1 :
           callIfNecessaryArray(s1, arr, paired, type, slot, i + 1, acc1, d)))

\* the pre-lock callbacks, with a select callback that forgets the cursor column
CallFn_withoutCursor(s, fn, d) ==
  CASE fn[1] = "builtin:select" -> lock(s, "selectCursor", d + 1)
    [] fn[1] = "builtin:where" -> lock(s, "whereBound", d + 1)
    [] fn[1] = "lock" -> lock(s, fn[2], d + 1)
    [] fn[1] = "getTableAlias" -> getTableAlias(s, d + 1)

\* the body of a pre-lock callback
CallFn(s, fn, d) ==
  CASE fn[1] = "builtin:select" ->
         Then(lock(s, "selectCursor", d + 1), LAMBDA s1 :
           IF s1.compiledData.selectCursor # NULL
           THEN select(s1, s1.compiledData.selectCursor, "__cursor")
           ELSE s1)
    [] fn[1] = "builtin:where" -> lock(s, "whereBound", d + 1)
    [] fn[1] = "lock" -> lock(s, fn[2], d + 1)
    [] fn[1] = "getTableAlias" -> getTableAlias(s, d + 1)

\* for (const fn of this.data.beforeLock[type] || []) fn(), from callback i on
RunBeforeLock(s, type, i, d) ==
  IF i > Len(s.data.beforeLock[type]) THEN s
  ELSE Then(CallFn(Log(s, Event("cb", type, "", i, d)), s.data.beforeLock[type][i], d),
            LAMBDA s1 : RunBeforeLock(s1, type, i + 1, d))

\* the phase-specific compilation of lock(), after the lock was recorded
CompilePhase(s, type, d) ==
  CASE type = "cursorComparator" ->
         [s EXCEPT !.compiledData.cursorComparator = CompiledCursorComparator(s)]
    [] type = "whereBound" ->
         Then(callIfNecessaryArray(s, s.data.whereBound.lower, FALSE,
                                   type, "lower", 1, <<>>, d), LAMBDA s1 :
           Then(callIfNecessaryArray(
                  [s1 EXCEPT !.compiledData.whereBound.lower = s1.ret],
                  s1.data.whereBound.upper, FALSE, type, "upper", 1, <<>>, d),
                LAMBDA s2 : [s2 EXCEPT !.compiledData.whereBound.upper = s2.ret]))
    [] type \in {"select", "orderBy"} ->
         Then(callIfNecessaryArray(s, s.data[type], TRUE, type, "", 1, <<>>, d),
              LAMBDA s1 : [s1 EXCEPT !.compiledData[type] = s1.ret])
    [] type = "from" ->
         IF s.data.from # <<>>
         THEN Then(callIfNecessary(s, s.data.from[1], type, "", 1, d), LAMBDA s1 :
                [s1 EXCEPT !.compiledData.from = <<s1.ret, s1.data.from[2]>>])
         ELSE s
    [] type \in {"join", "where"} ->
         Then(callIfNecessaryArray(s, s.data[type], FALSE, type, "", 1, <<>>, d),
              LAMBDA s1 : [s1 EXCEPT !.compiledData[type] = s1.ret])
    [] type = "selectCursor" ->
         Then(callIfNecessary(s, s.data.selectCursor, type, "", 1, d), LAMBDA s1 :
           [s1 EXCEPT !.compiledData.selectCursor = s1.ret])
    [] type \in {"cursorPrefix", "orderIsUnique", "limit", "offset", "flip"} ->
         CopyDraft(s, type)
    [] OTHER -> Throw(s, UnknownPhase)

\* lock() without the early return for a phase that is already locked
lock_again(s, type, d) ==
  IF d > MaxDepth THEN Throw(s, StackOverflow)
  ELSE Then(RunBeforeLock(s, type, 1, d), LAMBDA s1 :
         Let(Log([s1 EXCEPT !.locks = @ \cup {type}], Event("lock", type, "", 0, d)),
             LAMBDA s2 : CompilePhase(s2, type, d)))

\* lock(type), called at nesting depth d.  The engine's call stack is finite:
\* past MaxDepth nested frames the call raises the stack overflow error.
lock(s, type, d) ==
  IF type \in s.locks THEN s
  ELSE IF d > MaxDepth THEN Throw(s, StackOverflow)
  ELSE Then(RunBeforeLock(s, type, 1, d), LAMBDA s1 :
         Let(Log([s1 EXCEPT !.locks = @ \cup {type}], Event("lock", type, "", 0, d)),
             LAMBDA s2 : CompilePhase(s2, type, d)))

RECURSIVE LockAll(_, _, _)
\* this.lock(order[i]); this.lock(order[i + 1]); ...
LockAll(s, order, i) ==
  IF i > Len(order) THEN s
  ELSE Then(lock(s, order[i], 0), LAMBDA s1 : LockAll(s1, order, i + 1))

_finalize(s) == [s EXCEPT !.finalized = TRUE]

\* lockEverything() that locks where before from
lockEverything_whereFirst(s) ==
  Let(_finalize(s), LAMBDA s1 :
    LockAll(s1, <<"where", "from", "flip", "join", "offset", "limit", "orderBy",
                  "cursorComparator", "selectCursor", "select">>, 1))

\* lockEverything() that forgets its last lock, select
lockEverything_withoutSelect(s) ==
  Let(_finalize(s), LAMBDA s1 :
    LockAll(s1, SubSeq(LockOrder, 1, Len(LockOrder) - 1), 1))

lockEverything(s) == Let(_finalize(s), LAMBDA s1 : LockAll(s1, LockOrder, 1))

----------------------------------------------------------------------------
(* SQL fragments (pg-sql2), as text *)

RECURSIVE Join(_, _)
\* sql.join(items, separator)
Join(items, sep) ==
  IF Len(items) = 0 THEN ""
  ELSE IF Len(items) = 1 THEN items[1]
  ELSE items[1] \o sep \o Join(Tail(items), sep)

\* sql.identifier(name): a quoted identifier
Identifier(name) == "\"" \o name \o "\""
\* sql.literal(value) of a string
Literal(str) == "'" \o str \o "'"
\* sql.literal(true)
LiteralTrue == "TRUE"
\* a JavaScript number: kind "int" is the safe integer v, "half" the
\* non-integer v/2 (v odd), "big" the integer v * 2^53 (v = 1 or -1), which
\* is outside the safe range, "inf" is v * Infinity, and "nan" is NaN (v = 0)
Num(kind, v) == [kind |-> kind, v |-> v]

\* Number.isSafeInteger(n)
isSafeInteger(n) == n.kind = "int"

\* the numbers that are falsy: 0 and NaN
Falsy(n) == n.kind = "nan" \/ (n.kind = "int" /\ n.v = 0)

\* sql.literal(n) of a number: an integer is written out, another finite
\* number is written as a quoted float, NaN and the infinities become a
\* bound value, which compiles to a placeholder
LiteralNum(n) ==
  LET a == IF n.v < 0 THEN 0 - n.v ELSE n.v
      digits == CASE n.kind = "int" -> ToString(a)
                  [] n.kind = "half" -> ToString(a \div 2) \o ".5"
                  [] OTHER -> "9007199254740992"
      text == (IF n.v < 0 THEN "-" ELSE "") \o digits
  IN  CASE n.kind \in {"int", "big"} -> text
        [] n.kind = "half" -> "'" \o text \o "'::float"
        [] OTHER -> "$1"

\* Math.max(0, n): NaN stays NaN
Max0(n) == IF n.kind = "nan" \/ n.v > 0 THEN n ELSE Num("int", 0)

\* the fragment a cursor comparator returns for (cursorValue, isAfter)
Compare(fn, cursorValue, isAfter) ==
  fn \o "(" \o cursorValue \o (IF isAfter THEN ") > " ELSE ") < ") \o "row"

----------------------------------------------------------------------------
(* Mutators *)

\* beforeLock() that registers fn before the callbacks already registered
beforeLock_first(s, field, fn) ==
  Then(checkLock(s, field), LAMBDA s1 :
    [s1 EXCEPT !.data.beforeLock[field] = <<fn>> \o @])

beforeLock(s, field, fn) ==
  Then(checkLock(s, field), LAMBDA s1 :
    [s1 EXCEPT !.data.beforeLock[field] = Append(@, fn)])

setCursorComparator(s, fn) ==
  Then(checkLock(s, "cursorComparator"), LAMBDA s1 :
    Let([s1 EXCEPT !.data.cursorComparator = fn], LAMBDA s2 :
      lock(s2, "cursorComparator", 0)))

\* cursorCondition() without its check that a comparator was compiled
cursorCondition_unchecked(s, cursorValue, isAfter) ==
  Then(lock(s, "cursorComparator", 0), LAMBDA s1 :
    Return(s1, Compare(s1.compiledData.cursorComparator, cursorValue, isAfter)))

cursorCondition(s, cursorValue, isAfter) ==
  Then(lock(s, "cursorComparator", 0), LAMBDA s1 :
    IF s1.compiledData.cursorComparator = NULL THEN Throw(s1, NoCursorComparator)
    ELSE Return(s1, Compare(s1.compiledData.cursorComparator, cursorValue, isAfter)))

\* selectCursor() that also stores a literal expression as compiled
selectCursor_eager(s, exprGen) ==
  Then(checkLock(s, "selectCursor"), LAMBDA s1 :
    [s1 EXCEPT !.data.selectCursor = exprGen,
               !.compiledData.selectCursor = IF IsFn(exprGen) THEN @ ELSE exprGen])

selectCursor(s, exprGen) ==
  Then(checkLock(s, "selectCursor"), LAMBDA s1 :
    [s1 EXCEPT !.data.selectCursor = exprGen])

\* from() that writes the draft before it validates its arguments
from_writeFirst(s, expr, alias) ==
  Then(checkLock(s, "from"), LAMBDA s1 :
    Let([s1 EXCEPT !.data.from = <<expr, alias>>], LAMBDA s2 :
      IF expr = NULL THEN Throw(s2, NoFromSource)
      ELSE IF alias = NULL THEN Throw(s2, NoFromAlias)
      ELSE lock(s2, "from", 0)))

from(s, expr, alias) ==
  Then(checkLock(s, "from"), LAMBDA s1 :
    IF expr = NULL THEN Throw(s1, NoFromSource)
    ELSE IF alias = NULL THEN Throw(s1, NoFromAlias)
    ELSE Let([s1 EXCEPT !.data.from = <<expr, alias>>], LAMBDA s2 :
           lock(s2, "from", 0)))

where(s, exprGen) ==
  Then(checkLock(s, "where"), LAMBDA s1 :
    [s1 EXCEPT !.data.where = Append(@, exprGen)])

\* whereBound() that puts the predicate at the head of its list
whereBound_prepended(s, exprGen, isLower) ==
  IF isLower \notin {"true", "false"} THEN Throw(s, IsLowerNotBoolean)
  ELSE Then(checkLock(s, "whereBound"), LAMBDA s1 :
         IF isLower = "true"
         THEN [s1 EXCEPT !.data.whereBound.lower = <<exprGen>> \o @]
         ELSE [s1 EXCEPT !.data.whereBound.upper = <<exprGen>> \o @])

\* isLower is "true", "false", or anything else for a value that is no boolean
whereBound(s, exprGen, isLower) ==
  IF isLower \notin {"true", "false"} THEN Throw(s, IsLowerNotBoolean)
  ELSE Then(checkLock(s, "whereBound"), LAMBDA s1 :
         IF isLower = "true"
         THEN [s1 EXCEPT !.data.whereBound.lower = Append(@, exprGen)]
         ELSE [s1 EXCEPT !.data.whereBound.upper = Append(@, exprGen)])

\* setOrderIsUnique() that writes the compiled flag as well as the draft
setOrderIsUnique_compiled(s) ==
  [s EXCEPT !.data.orderIsUnique = TRUE, !.compiledData.orderIsUnique = TRUE]

setOrderIsUnique(s) == [s EXCEPT !.data.orderIsUnique = TRUE]

orderBy(s, exprGen, ascending) ==
  Then(checkLock(s, "orderBy"), LAMBDA s1 :
    [s1 EXCEPT !.data.orderBy = Append(@, <<exprGen, ascending>>)])

\* limit() without its check that the phase is still open
limit_unchecked(s, n) ==
  Let([s EXCEPT !.data.limit = <<Max0(n)>>], LAMBDA s2 : lock(s2, "limit", 0))

limit(s, n) ==
  Then(checkLock(s, "limit"), LAMBDA s1 :
    Let([s1 EXCEPT !.data.limit = <<Max0(n)>>], LAMBDA s2 : lock(s2, "limit", 0)))

offset(s, n) ==
  Then(checkLock(s, "offset"), LAMBDA s1 :
    Let([s1 EXCEPT !.data.offset = <<Max0(n)>>], LAMBDA s2 : lock(s2, "offset", 0)))

flip(s) ==
  Then(checkLock(s, "flip"), LAMBDA s1 :
    Let([s1 EXCEPT !.data.flip = TRUE], LAMBDA s2 : lock(s2, "flip", 0)))

----------------------------------------------------------------------------
(* Accessors *)

isOrderUnique(s) ==
  Then(lock(s, "orderIsUnique", 0), LAMBDA s1 : Return(s1, s1.compiledData.orderIsUnique))

getSelectCursor(s) ==
  Then(lock(s, "selectCursor", 0), LAMBDA s1 : Return(s1, s1.compiledData.selectCursor))

\* this.compiledData.offset || 0
getOffset(s) ==
  Then(lock(s, "offset", 0), LAMBDA s1 :
    Return(s1, IF s1.compiledData.offset = <<>> \/ Falsy(s1.compiledData.offset[1])
               THEN Num("int", 0)
               ELSE s1.compiledData.offset[1]))

getOrderByExpressionsAndDirections(s) ==
  Then(lock(s, "orderBy", 0), LAMBDA s1 : Return(s1, s1.compiledData.orderBy))

----------------------------------------------------------------------------
(* Clause compilers and the final assembler *)

\* the text of a template with the falsy interpolations left out
Words(parts) == Join(SelectSeq(parts, LAMBDA w : w # ""), " ")

SelectFieldsSql(sel) ==
  Join([i \in 1..Len(sel) |-> sel[i][1] \o " as " \o Identifier(sel[i][2])], ", ")

buildSelectFields(s) ==
  Then(lockEverything(s), LAMBDA s1 : Return(s1, SelectFieldsSql(s1.compiledData.select)))

JsonBuildObjectSql(sel) ==
  "json_build_object("
    \o Join([i \in 1..Len(sel) |-> Literal(sel[i][2]) \o ", " \o sel[i][1]], ", ")
    \o ")"

\* the shape alone, with no null case around it
NullCaseSql_unwrapped(alias, buildObject) == buildObject

NullCaseSql(alias, buildObject) ==
  "(case when " \o alias \o " is null then null else " \o buildObject \o " end)"

buildSelectJson(s, addNullCase) ==
  Then(lockEverything(s), LAMBDA s1 :
    Then(IF Len(s1.compiledData.select) # 0
         THEN Return(s1, JsonBuildObjectSql(s1.compiledData.select))
         ELSE Then(getTableAlias(s1, 0), LAMBDA a :
                Return(a, "to_json(" \o a.ret \o ".*)")),
         LAMBDA s2 :
      IF ~addNullCase THEN s2
      ELSE Then(getTableAlias(s2, 0), LAMBDA s3 :
             Return(s3, NullCaseSql(s3.ret, s2.ret)))))

\* the bound clause, with nothing for an empty list
BoundClauseSql_emptyOmitted(clauses) ==
  IF Len(clauses) # 0 THEN "(" \o Join(clauses, ") and (") \o ")" ELSE ""

BoundClauseSql(clauses) ==
  IF Len(clauses) # 0 THEN "(" \o Join(clauses, ") and (") \o ")" ELSE LiteralTrue

buildWhereBoundClause(s, isLower) ==
  Then(lock(s, "whereBound", 0), LAMBDA s1 :
    Return(s1, BoundClauseSql(IF isLower THEN s1.compiledData.whereBound.lower
                              ELSE s1.compiledData.whereBound.upper)))

WhereClauseSql(clauses) ==
  IF Len(clauses) # 0 THEN "(" \o Join(clauses, ") and (") \o ")" ELSE "1 = 1"

buildWhereClause(s, includeLowerBound, includeUpperBound, addNullCase) ==
  Then(lock(s, "where", 0), LAMBDA s1 :
    Then(IF addNullCase THEN getTableAlias(s1, 0) ELSE s1, LAMBDA s2 :
      Then(IF includeLowerBound THEN buildWhereBoundClause(s2, TRUE) ELSE s2, LAMBDA s3 :
        Then(IF includeUpperBound THEN buildWhereBoundClause(s3, FALSE) ELSE s3, LAMBDA s4 :
          Return(s4, WhereClauseSql(
            (IF addNullCase THEN <<"not (" \o s2.ret \o " is null)">> ELSE <<>>)
              \o s2.compiledData.where
              \o (IF includeLowerBound THEN <<s3.ret>> ELSE <<>>)
              \o (IF includeUpperBound THEN <<s4.ret>> ELSE <<>>)))))))

\* the order by clause with ASC only for an ascending entry that is not
\* flipped: a descending entry stays DESC when the query is flipped
OrderBySql_ascUnflippedOnly(ord, flipped) ==
  IF Len(ord) # 0
  THEN "order by "
         \o Join([i \in 1..Len(ord) |->
                   ord[i][1] \o " "
                     \o (IF ord[i][2] /\ ~flipped THEN "ASC" ELSE "DESC")],
                 ",")
  ELSE ""

\* expr ASC|DESC for each entry, by Number(ascending) ^ Number(flip)
OrderBySql(ord, flipped) ==
  IF Len(ord) # 0
  THEN "order by "
         \o Join([i \in 1..Len(ord) |->
                   ord[i][1] \o " " \o (IF ord[i][2] # flipped THEN "ASC" ELSE "DESC")],
                 ",")
  ELSE ""

\* a LIMIT clause for every number, a safe integer or not
LimitSql_unguarded(lim) ==
  IF lim # <<>> THEN "limit " \o LiteralNum(lim[1]) ELSE ""

\* isSafeInteger(limit) && sql`limit ${literal(limit)}`
LimitSql(lim) ==
  IF lim # <<>> /\ isSafeInteger(lim[1]) THEN "limit " \o LiteralNum(lim[1]) ELSE ""

\* offset && sql`offset ${literal(offset)}`
OffsetSql(off) ==
  IF off # <<>> /\ ~Falsy(off[1]) THEN "offset " \o LiteralNum(off[1]) ELSE ""

FlipSql(fragment) ==
  "with " \o Identifier("flip") \o " as ( " \o fragment \o " ) select * from "
    \o Identifier("flip") \o " order by (row_number() over (partition by 1)) desc"

JsonAggSql(fragment) ==
  "select coalesce((select json_agg(" \o Identifier("agg") \o "." \o Identifier("object")
    \o ") from (" \o fragment \o ") as " \o Identifier("agg") \o "), '[]'::json)"

\* the select statement of build(), before the flip and aggregate wrappers
SelectSql(fields, fromSql, whereSql, cd) ==
  Words(<<"select", fields, fromSql,
          IF Len(cd.join) # 0 THEN Join(cd.join, " ") ELSE "",
          "where", whereSql, OrderBySql(cd.orderBy, cd.flip), LimitSql(cd.limit),
          OffsetSql(cd.offset)>>)

\* options is [asJson, asJsonAggregate, onlyJsonField, addNullCase]
build(s, options) ==
  Then(lockEverything(s), LAMBDA s1 :
    IF options.onlyJsonField THEN buildSelectJson(s1, options.addNullCase)
    ELSE
      Then(IF options.asJson \/ options.asJsonAggregate
           THEN Then(buildSelectJson(s1, options.addNullCase), LAMBDA j :
                  Return(j, j.ret \o " as object"))
           ELSE buildSelectFields(s1),
           LAMBDA s2 :
        Then(IF s2.compiledData.from # <<>>
             THEN Then(getTableAlias(s2, 0), LAMBDA a :
                    Return(a, "from " \o a.compiledData.from[1] \o " as " \o a.ret))
             ELSE Return(s2, ""),
             LAMBDA s3 :
          Then(buildWhereClause(s3, TRUE, TRUE, options.addNullCase), LAMBDA s4 :
            Let(SelectSql(s2.ret, s3.ret, s4.ret, s4.compiledData), LAMBDA fragment :
              Let(IF s4.compiledData.flip THEN FlipSql(fragment) ELSE fragment,
                  LAMBDA flipped :
                Return(s4, IF options.asJsonAggregate THEN JsonAggSql(flipped)
                           ELSE flipped)))))))

----------------------------------------------------------------------------
(* Inputs of the public calls *)

\* expression generators callers pass: literal fragments and the two producers
SqlGens == {"a", "fn:const", "fn:alias"}
\* select(exprGen, alias)
SelectArgs == {<<"a", "x">>, <<"fn:alias", "y">>, <<"a", "__cursor">>}
CursorGens == {"c", "fn:alias"}
\* whereBound(exprGen, isLower), isLower also not a boolean
WhereBoundArgs == {<<"b", "true">>, <<"fn:alias", "false">>, <<"b", "undefined">>}
\* orderBy(exprGen, ascending)
OrderByArgs == {<<"o", TRUE>>, <<"fn:alias", FALSE>>}
\* from(expr, alias): a literal or deferred source, and the missing ones
FromArgs == {<<"users", "t">>, <<"fn:const", "t">>, <<NULL, "t">>, <<"users", NULL>>}
Numbers == {Num("int", -1), Num("int", 0), Num("int", 2)}
Comparators == {"f1", "f2"}
CursorValues == {"v"}
\* beforeLock(field, fn) with the callbacks () => qb.getTableAlias() and
\* () => qb.lock("select")
BeforeLockArgs ==
  {<<"from", <<"getTableAlias", "">> >>,
   <<"select", <<"getTableAlias", "">> >>,
   <<"selectCursor", <<"lock", "select">> >>,
   <<"orderIsUnique", <<"lock", "select">> >>,
   <<BogusType, <<"getTableAlias", "">> >>}
BuildOptions ==
  [asJson : BOOLEAN, asJsonAggregate : BOOLEAN, onlyJsonField : BOOLEAN,
   addNullCase : BOOLEAN]

----------------------------------------------------------------------------
(* The state machine: one action per public method *)

\* the builder in the current state, no call made yet
Cur ==
  [locks |-> locks, finalized |-> finalized, data |-> data,
   compiledData |-> compiledData, trace |-> trace, err |-> NoError,
   ret |-> UNDEFINED]

\* a method that returns nothing
Void(s) == [s EXCEPT !.ret = UNDEFINED]

\* the call op(args) took the builder to s
Done(s, op, args) ==
  \E t \in {s} :
    /\ locks' = t.locks
    /\ finalized' = t.finalized
    /\ data' = t.data
    /\ compiledData' = t.compiledData
    /\ trace' = t.trace
    /\ result' = [op |-> op, args |-> args, err |-> t.err, ret |-> t.ret]
    /\ nops' = nops + 1
    /\ UNCHANGED mutation

\* no error: the value of a resolver's error slots while nothing was raised
NoFailure == [at |-> "", code |-> ""]

\* the create-mutation resolver before it is invoked: log holds the commands
\* handed to the database client, answered those the client has answered
IdleMutation ==
  [pc |-> "idle", clientMutationId |-> UNDEFINED, log |-> <<>>,
   answered |-> <<>>, row |-> UNDEFINED,
   caught |-> NoFailure, outcome |-> "pending", thrown |-> NoFailure,
   payload |-> <<>>]

Init ==
  /\ locks = {}
  /\ finalized = FALSE
  /\ data = ConstructedData
  /\ compiledData = InitCompiledData
  /\ trace = <<>>
  /\ result = [op |-> "new", args |-> <<>>, err |-> NoError, ret |-> UNDEFINED]
  /\ nops = 0
  /\ mutation = IdleMutation

BeforeLock ==
  /\ nops < MaxOps
  /\ \E a \in BeforeLockArgs :
       Done(Void(beforeLock(Cur, a[1], a[2])), "beforeLock", a)

SetCursorComparator ==
  /\ nops < MaxOps
  /\ \E fn \in Comparators :
       Done(Void(setCursorComparator(Cur, fn)), "setCursorComparator", <<fn>>)

CursorCondition ==
  /\ nops < MaxOps
  /\ \E v \in CursorValues, isAfter \in BOOLEAN :
       Done(cursorCondition(Cur, v, isAfter), "cursorCondition", <<v, isAfter>>)

Select ==
  /\ nops < MaxOps
  /\ \E a \in SelectArgs : Done(Void(select(Cur, a[1], a[2])), "select", a)

SelectCursor ==
  /\ nops < MaxOps
  /\ \E g \in CursorGens : Done(Void(selectCursor(Cur, g)), "selectCursor", <<g>>)

From ==
  /\ nops < MaxOps
  /\ \E a \in FromArgs : Done(Void(from(Cur, a[1], a[2])), "from", a)

Where ==
  /\ nops < MaxOps
  /\ \E g \in SqlGens : Done(Void(where(Cur, g)), "where", <<g>>)

WhereBound ==
  /\ nops < MaxOps
  /\ \E a \in WhereBoundArgs :
       Done(Void(whereBound(Cur, a[1], a[2])), "whereBound", a)

SetOrderIsUnique ==
  /\ nops < MaxOps
  /\ Done(Void(setOrderIsUnique(Cur)), "setOrderIsUnique", <<>>)

OrderBy ==
  /\ nops < MaxOps
  /\ \E a \in OrderByArgs : Done(Void(orderBy(Cur, a[1], a[2])), "orderBy", a)

Limit ==
  /\ nops < MaxOps
  /\ \E n \in Numbers : Done(Void(limit(Cur, n)), "limit", <<n>>)

Offset ==
  /\ nops < MaxOps
  /\ \E n \in Numbers : Done(Void(offset(Cur, n)), "offset", <<n>>)

Flip ==
  /\ nops < MaxOps
  /\ Done(Void(flip(Cur)), "flip", <<>>)

IsOrderUnique ==
  /\ nops < MaxOps
  /\ Done(isOrderUnique(Cur), "isOrderUnique", <<>>)

GetTableAlias ==
  /\ nops < MaxOps
  /\ Done(getTableAlias(Cur, 0), "getTableAlias", <<>>)

GetSelectCursor ==
  /\ nops < MaxOps
  /\ Done(getSelectCursor(Cur), "getSelectCursor", <<>>)

GetOffset ==
  /\ nops < MaxOps
  /\ Done(getOffset(Cur), "getOffset", <<>>)

GetOrderByExpressionsAndDirections ==
  /\ nops < MaxOps
  /\ Done(getOrderByExpressionsAndDirections(Cur),
          "getOrderByExpressionsAndDirections", <<>>)

BuildSelectFields ==
  /\ nops < MaxOps
  /\ Done(buildSelectFields(Cur), "buildSelectFields", <<>>)

BuildSelectJson ==
  /\ nops < MaxOps
  /\ \E addNullCase \in BOOLEAN :
       Done(buildSelectJson(Cur, addNullCase), "buildSelectJson", <<addNullCase>>)

BuildWhereBoundClause ==
  /\ nops < MaxOps
  /\ \E isLower \in BOOLEAN :
       Done(buildWhereBoundClause(Cur, isLower), "buildWhereBoundClause", <<isLower>>)

BuildWhereClause ==
  /\ nops < MaxOps
  /\ \E lower \in BOOLEAN, upper \in BOOLEAN, addNullCase \in BOOLEAN :
       Done(buildWhereClause(Cur, lower, upper, addNullCase), "buildWhereClause",
            <<lower, upper, addNullCase>>)

Build ==
  /\ nops < MaxOps
  /\ \E options \in BuildOptions : Done(build(Cur, options), "build", <<options>>)

Lock ==
  /\ nops < MaxOps
  /\ \E type \in Types : Done(Void(lock(Cur, type, 0)), "lock", <<type>>)

LockEverything ==
  /\ nops < MaxOps
  /\ Done(Void(lockEverything(Cur)), "lockEverything", <<>>)

\* the lock manager: every mutator, every accessor, lock and lockEverything
Next ==
  \/ BeforeLock
  \/ SetCursorComparator
  \/ CursorCondition
  \/ Select
  \/ SelectCursor
  \/ From
  \/ Where
  \/ WhereBound
  \/ SetOrderIsUnique
  \/ OrderBy
  \/ Limit
  \/ Offset
  \/ Flip
  \/ IsOrderUnique
  \/ GetTableAlias
  \/ GetSelectCursor
  \/ GetOffset
  \/ GetOrderByExpressionsAndDirections
  \/ Lock
  \/ LockEverything

Spec == Init /\ [][Next]_vars

\* the assembler: the mutators that configure a query, and the build entry points
NextBuild ==
  \/ Select
  \/ SelectCursor
  \/ From
  \/ Where
  \/ WhereBound
  \/ OrderBy
  \/ Limit
  \/ Offset
  \/ Flip
  \/ BuildSelectFields
  \/ BuildSelectJson
  \/ BuildWhereBoundClause
  \/ BuildWhereClause
  \/ Build

SpecBuild == Init /\ [][NextBuild]_vars

----------------------------------------------------------------------------
(* Vocabulary of the properties *)

\* the phase a mutator writes
PhaseOfMutator(op) ==
  CASE op = "select" -> "select"
    [] op = "selectCursor" -> "selectCursor"
    [] op = "from" -> "from"
    [] op = "where" -> "where"
    [] op = "whereBound" -> "whereBound"
    [] op = "orderBy" -> "orderBy"
    [] op = "setOrderIsUnique" -> "orderIsUnique"
    [] op = "limit" -> "limit"
    [] op = "offset" -> "offset"
    [] op = "flip" -> "flip"
    [] op = "setCursorComparator" -> "cursorComparator"

MutatorOps ==
  {"select", "selectCursor", "from", "where", "whereBound", "orderBy",
   "setOrderIsUnique", "limit", "offset", "flip", "setCursorComparator"}

\* the calls that finalize the builder
FinalizerOps == {"lockEverything", "build", "buildSelectFields", "buildSelectJson"}

\* the call passes arguments of the declared types
WellTyped(r) == r.op = "whereBound" => r.args[2] \in {"true", "false"}

\* the phases lockEverything locks: its ten requests, and whereBound through the
\* pre-lock callback of where
FinalizedTypes == {LockOrder[i] : i \in 1..Len(LockOrder)} \cup {"whereBound"}

\* the fixed order of the claims: LockOrder with whereBound just before where
FullOrder ==
  <<"from", "flip", "join", "offset", "limit", "orderBy", "cursorComparator",
    "whereBound", "where", "selectCursor", "select">>

\* positions of the history at which phase type was marked locked
LockedAt(tr, type) == {k \in 1..Len(tr) : tr[k].ev = "lock" /\ tr[k].type = type}

----------------------------------------------------------------------------
(* C1 *)

\* C1: once a phase P is locked, every later call of a mutator of P fails with
\* the 'has already been locked' (DoubleLock) error.
C1_MutatorAfterLockFails ==
  [][(/\ result'.op \in MutatorOps
      /\ WellTyped(result')
      /\ PhaseOfMutator(result'.op) \in locks)
     => result'.err = DoubleLock]_vars

----------------------------------------------------------------------------
(* C2 *)

\* how many times the pre-lock callback i of phase type has run
CallbackRuns(type, i) ==
  Cardinality({k \in 1..Len(trace) :
                 trace[k].ev = "cb" /\ trace[k].type = type /\ trace[k].idx = i})

\* C2: whatever way lock(P) is requested and however often, each pre-lock
\* callback registered for P runs at most once, and once P is marked locked each
\* has run exactly once, in registration order, before the lock was recorded.
C2_CallbacksRunOnce ==
  \A type \in Types :
    /\ \A i \in 1..Len(data.beforeLock[type]) : CallbackRuns(type, i) <= 1
    /\ type \in locks =>
         \E l \in LockedAt(trace, type) :
           SelectSeq(SubSeq(trace, 1, l),
                     LAMBDA e : e.ev = "cb" /\ e.type = type)
             = [i \in 1..Len(data.beforeLock[type]) |->
                  Event("cb", type, "", i, trace[l].d)]

----------------------------------------------------------------------------
(* C3 *)

\* C3 as claimed: for any two phases P before Q in the fixed order, P is locked
\* no later than Q, in every execution.
C3_LockedInFixedOrder ==
  \A i \in 1..Len(FullOrder), j \in 1..Len(FullOrder) :
    (i < j /\ FullOrder[j] \in locks) => FullOrder[i] \in locks

\* the phases locked once the first k entries of the history tr' are added to
\* the phases lk locked before the call
LockedBy(lk, tr, from0, k) ==
  lk \cup {tr[m].type : m \in {n \in (from0 + 1)..k : tr[n].ev = "lock"}}

\* C3 amended: a finalizing call requests the locks in the fixed order: each
\* phase it locks by its own request is locked when every phase before it in
\* the list is locked already, and where only after whereBound.
C3_RequestsInFixedOrder ==
  [][result'.op \in FinalizerOps =>
       \A k \in (Len(trace) + 1)..Len(trace') :
         (trace'[k].ev = "lock" /\ trace'[k].d = 0) =>
           /\ \E j \in 1..Len(LockOrder) :
                /\ LockOrder[j] = trace'[k].type
                /\ \A i \in 1..(j - 1) :
                     LockOrder[i] \in LockedBy(locks, trace', Len(trace), k - 1)
           /\ trace'[k].type = "where" =>
                "whereBound" \in LockedBy(locks, trace', Len(trace), k - 1)]_vars

\* C3 witness: lockEverything completed on a builder whose limit was locked by
\* limit() before from was locked.
C3_Witness ==
  /\ result.op = "lockEverything"
  /\ result.err = NoError
  /\ \E a \in LockedAt(trace, "limit"), b \in LockedAt(trace, "from") : a < b
  /\ \E a \in LockedAt(trace, "from"), b \in LockedAt(trace, "select") : a < b

----------------------------------------------------------------------------
(* C4 *)

\* C4 as claimed: after lockEverything returns normally all thirteen phases
\* are locked.
C4_AllThirteenLocked ==
  (result.op = "lockEverything" /\ result.err = NoError) => KnownTypes \subseteq locks

\* C4 amended: after a finalizing call returns normally the eleven phases
\* from, flip, join, offset, limit, orderBy, cursorComparator, whereBound,
\* where, selectCursor and select are locked.
C4_ElevenLocked ==
  (result.op \in FinalizerOps /\ result.err = NoError) => FinalizedTypes \subseteq locks

\* C4 witness: lockEverything returned normally and left cursorPrefix and
\* orderIsUnique open.
C4_Witness ==
  /\ result.op = "lockEverything"
  /\ result.err = NoError
  /\ FinalizedTypes \subseteq locks
  /\ "cursorPrefix" \notin locks
  /\ "orderIsUnique" \notin locks

----------------------------------------------------------------------------
(* C5 *)

\* C5: once finalization has completed, every mutator call (beforeLock
\* included) fails with an error and changes no state.
C5_MutatorAfterFinalizeFails ==
  [][(/\ finalized
      /\ FinalizedTypes \subseteq locks
      /\ result'.op \in MutatorOps \cup {"beforeLock"}
      /\ result'.op = "beforeLock" => result'.args[1] \in KnownTypes)
     => (/\ result'.err # NoError
         /\ locks' = locks
         /\ data' = data
         /\ compiledData' = compiledData)]_vars

----------------------------------------------------------------------------
(* C6 *)

\* C6: after setCursorComparator(f) has succeeded, cursorCondition(v, isAfter)
\* succeeds and returns f(v, isAfter).
C6_CursorConditionDelegates ==
  [][(data.cursorComparator # NULL /\ result'.op = "cursorCondition")
     => (/\ result'.err = NoError
         /\ result'.ret = Compare(data.cursorComparator, result'.args[1],
                                  result'.args[2]))]_vars

----------------------------------------------------------------------------
(* C7 *)

\* C7: cursorCondition on a builder on which setCursorComparator never
\* succeeded fails with 'No cursor comparator was set!' and returns nothing.
C7_MissingCursorComparator ==
  (result.op = "cursorCondition" /\ data.cursorComparator = NULL)
    => (result.err = NoCursorComparator /\ result.ret = UNDEFINED)

\* C7 witness: cursorCondition was called with no comparator set, and failed.
C7_Witness ==
  /\ result.op = "cursorCondition"
  /\ data.cursorComparator = NULL
  /\ "cursorComparator" \in locks
  /\ result.err = NoCursorComparator

----------------------------------------------------------------------------
(* C8 *)

\* the text sub occurs in the text str
Contains(str, sub) ==
  \E i \in 1..(Len(str) - Len(sub) + 1) : SubSeq(str, i, i + Len(sub) - 1) = sub

\* C8 as claimed: build on a builder on which from() never succeeded fails with
\* the missing-source error, whatever the options and the select list.
C8_BuildWithoutFromFails ==
  (result.op = "build" /\ data.from = <<>>) => result.err = NoFromTable

\* a producer that reads the table alias is registered in a phase that is not
\* locked yet, so that the next lock of the phase invokes it
UnlockedReader ==
  \/ "select" \notin locks /\ \E i \in 1..Len(data.select) : data.select[i][1] = "fn:alias"
  \/ "selectCursor" \notin locks /\ data.selectCursor = "fn:alias"
  \/ "where" \notin locks /\ \E i \in 1..Len(data.where) : data.where[i] = "fn:alias"
  \/ "whereBound" \notin locks
       /\ \/ \E i \in 1..Len(data.whereBound.lower) : data.whereBound.lower[i] = "fn:alias"
          \/ \E i \in 1..Len(data.whereBound.upper) : data.whereBound.upper[i] = "fn:alias"
  \/ "orderBy" \notin locks /\ \E i \in 1..Len(data.orderBy) : data.orderBy[i][1] = "fn:alias"

\* a build call on a builder without a source relation: it raises 'No from
\* table has been supplied' exactly when the call reads the table alias, and
\* otherwise returns a fragment without a source relation
BuildWithoutFromStep ==
  (result'.op = "build" /\ data'.from = <<>>) =>
    LET o == result'.args[1]
        json == o.asJson \/ o.asJsonAggregate \/ o.onlyJsonField
        reads == \/ UnlockedReader
                 \/ o.addNullCase
                 \/ json /\ Len(compiledData'.select) = 0
    IN IF reads
       THEN result'.err = NoFromTable
       ELSE /\ result'.err = NoError
            /\ compiledData'.from = <<>>
            /\ data'.flip \/ o.asJsonAggregate \/ ~Contains(result'.ret, " from ")

\* C8 amended: build on a builder on which from() never succeeded fails with
\* 'No from table has been supplied' exactly when the call reads the table
\* alias: when a producer that calls getTableAlias() is registered in a phase
\* that was not locked before the call, when addNullCase is set, or when a JSON
\* shape is requested over an empty compiled select list; in every other
\* case, a reading producer whose phase an earlier call locked included, it
\* returns normally, a fragment without a source relation.
C8_BuildWithoutFrom == [][BuildWithoutFromStep]_vars

\* C8 witness: build with addNullCase over a selected field and no source
\* relation failed.
C8_Witness ==
  /\ result.op = "build"
  /\ data.from = <<>>
  /\ result.args[1].addNullCase
  /\ Len(compiledData.select) > 0
  /\ result.err = NoFromTable

\* build({}) returned normally although a producer that reads the table alias
\* is registered: an earlier call that raised had locked its phase
C8_LockedReaderSkipped ==
  /\ result.op = "build"
  /\ data.from = <<>>
  /\ data.where = <<"fn:alias">>
  /\ compiledData.where = <<>>
  /\ result.err = NoError

----------------------------------------------------------------------------
(* C9 *)

\* the expression lists of the builder: a phase and, for whereBound, its list
ExprSlots ==
  {<<"select", "">>, <<"selectCursor", "">>, <<"from", "">>, <<"join", "">>,
   <<"where", "">>, <<"whereBound", "lower">>, <<"whereBound", "upper">>,
   <<"orderBy", "">>}

\* the expression generators registered in the list, in registration order
DraftGens(d, type, slot) ==
  CASE type \in {"select", "orderBy"} -> [i \in 1..Len(d[type]) |-> d[type][i][1]]
    [] type \in {"where", "join"} -> d[type]
    [] type = "whereBound" -> d.whereBound[slot]
    [] type = "selectCursor" -> IF d.selectCursor = NULL THEN <<>> ELSE <<d.selectCursor>>
    [] type = "from" -> IF d.from = <<>> THEN <<>> ELSE <<d.from[1]>>

\* the positions of the list that hold a producer, in increasing order
FnPositions(gens) ==
  SelectSeq([i \in 1..Len(gens) |-> i], LAMBDA i : IsFn(gens[i]))

\* the positions whose producer was invoked, in the order of the invocations
Invoked(tr, type, slot) ==
  LET evs == SelectSeq(tr, LAMBDA e : e.ev = "gen" /\ e.type = type /\ e.slot = slot)
  IN [k \in 1..Len(evs) |-> evs[k].idx]

\* the first invocation of a producer of the list, 0 if there is none
FirstInvocation(tr, type, slot) ==
  LET ks == {k \in 1..Len(tr) :
               tr[k].ev = "gen" /\ tr[k].type = type /\ tr[k].slot = slot}
  IN IF ks = {} THEN 0 ELSE CHOOSE k \in ks : \A m \in ks : k <= m

\* what the generator g resolves to
Resolved(g) ==
  IF g = "fn:const" THEN "k"
  ELSE IF g = "fn:alias"
       THEN (IF compiledData.from = <<>> THEN UNDEFINED ELSE compiledData.from[2] \o ".c")
       ELSE g

\* every position of the list was compiled to what its generator resolves to
CompiledFrom(type, slot) ==
  DraftGens(compiledData, type, slot)
    = [i \in 1..Len(DraftGens(data, type, slot)) |-> Resolved(DraftGens(data, type, slot)[i])]

\* C9 as claimed: once a phase is locked each of its producers has been invoked
\* exactly once, after the lock and in registration order, and the compiled
\* value at each position is the result of the producer registered there.
C9_ProducersInvokedOnce ==
  \A x \in ExprSlots :
    /\ x[1] \notin locks => Invoked(trace, x[1], x[2]) = <<>>
    /\ x[1] \in locks =>
         /\ Invoked(trace, x[1], x[2]) = FnPositions(DraftGens(data, x[1], x[2]))
         /\ CompiledFrom(x[1], x[2])

\* C9 amended: a producer is invoked at most once, only after its phase was
\* marked locked, and the producers of a list are invoked in registration
\* order; when the compilation of the list completes each producer has been
\* invoked exactly once and the compiled value at each position is the result
\* of the producer registered there; when a producer raises (here: no table
\* alias to read) the producers after it are never invoked and the list stays
\* locked with no compiled value.
C9_ProducersInvokedInOrder ==
  \A x \in ExprSlots :
    LET gens == DraftGens(data, x[1], x[2])
        fns == FnPositions(gens)
        inv == Invoked(trace, x[1], x[2])
        completed == Len(DraftGens(compiledData, x[1], x[2])) = Len(gens)
    IN /\ Len(inv) <= Len(fns)
       /\ inv = SubSeq(fns, 1, Len(inv))
       /\ inv # <<>> =>
            \E l \in LockedAt(trace, x[1]) : l < FirstInvocation(trace, x[1], x[2])
       /\ x[1] \notin locks => inv = <<>>
       /\ (x[1] \in locks /\ completed) => (inv = fns /\ CompiledFrom(x[1], x[2]))
       /\ (x[1] \in locks /\ ~completed) =>
            /\ inv # <<>>
            /\ gens[inv[Len(inv)]] = "fn:alias"
            /\ compiledData.from = <<>>
            /\ DraftGens(compiledData, x[1], x[2]) = <<>>

\* C9 witness: where was locked with two producers registered, and both were
\* invoked, the first before the second.
C9_Witness ==
  /\ "where" \in locks
  /\ Len(data.where) = 2
  /\ FnPositions(data.where) = <<1, 2>>
  /\ Invoked(trace, "where", "") = <<1, 2>>
  /\ compiledData.where = <<"k", "k">>

----------------------------------------------------------------------------
(* C10 *)

\* C10: whenever a producer of a phase other than from is invoked, from is
\* already locked.
C10_ProducerSeesFrom ==
  \A k \in 1..Len(trace) :
    (trace[k].ev = "gen" /\ trace[k].type # "from") =>
      \E j \in 1..(k - 1) : trace[j].ev = "lock" /\ trace[j].type = "from"

----------------------------------------------------------------------------
(* C11 *)

\* calls made on a builder that is used for its order-uniqueness flag
MaxOrderOps == 4

\* the order-uniqueness protocol: setOrderIsUnique, isOrderUnique and the
\* finalizing calls, in any interleaving
NextOrder ==
  \/ /\ nops < MaxOrderOps
     /\ Done(Void(setOrderIsUnique(Cur)), "setOrderIsUnique", <<>>)
  \/ /\ nops < MaxOrderOps
     /\ Done(isOrderUnique(Cur), "isOrderUnique", <<>>)
  \/ /\ nops < MaxOrderOps
     /\ Done(Void(lockEverything(Cur)), "lockEverything", <<>>)
  \/ /\ nops < MaxOrderOps
     /\ \E options \in BuildOptions : Done(build(Cur, options), "build", <<options>>)

SpecOrder == Init /\ [][NextOrder]_vars

\* C11: isOrderUnique returns false when setOrderIsUnique was never called, and
\* true when it is called after finalization and setOrderIsUnique was called
\* at any point before.
C11_OrderUniqueReported ==
  (result.op = "isOrderUnique" /\ result.err = NoError) =>
    /\ ~data.orderIsUnique => result.ret = FALSE
    /\ (data.orderIsUnique /\ finalized) => result.ret = TRUE

----------------------------------------------------------------------------
(* C12 *)

\* the mutators that lock their phase when they are called
SetOnceOps == {"from", "limit", "offset", "flip", "setCursorComparator"}

\* the draft value a successful set-once call stores
SetOnceDraft(r) ==
  CASE r.op = "from" -> <<r.args[1], r.args[2]>>
    [] r.op \in {"limit", "offset"} -> <<Max0(r.args[1])>>
    [] r.op = "flip" -> TRUE
    [] r.op = "setCursorComparator" -> r.args[1]

\* the compiled value lock() derives from that draft; for the cursor comparator
\* lock() stores nothing and the compiled value stays null
SetOnceCompiled(r) ==
  CASE r.op = "from" ->
         <<IF r.args[1] = "fn:const" THEN "k" ELSE r.args[1], r.args[2]>>
    [] r.op = "setCursorComparator" -> NULL
    [] OTHER -> SetOnceDraft(r)

\* C12: from, limit, offset, flip and setCursorComparator are set-once: a
\* successful call stores its value and locks its phase at once, a call on the
\* locked phase fails with DoubleLock, and once the phase is locked its draft
\* and compiled values never change again.
C12_SetOnce ==
  [][\A o \in SetOnceOps :
       LET P == PhaseOfMutator(o) IN
       /\ (result'.op = o /\ result'.err = NoError) =>
            /\ P \notin locks
            /\ P \in locks'
            /\ data'[P] = SetOnceDraft(result')
            /\ compiledData'[P] = SetOnceCompiled(result')
       /\ (result'.op = o /\ P \in locks) => result'.err = DoubleLock
       /\ P \in locks =>
            /\ P \in locks'
            /\ data'[P] = data[P]
            /\ compiledData'[P] = compiledData[P]]_vars

\* C12 witness: limit(2) succeeded, and a later limit(0) failed with DoubleLock
\* and left the limit at 2.
C12_Witness ==
  /\ result.op = "limit"
  /\ result.args = <<Num("int", 0)>>
  /\ result.err = DoubleLock
  /\ data.limit = <<Num("int", 2)>>
  /\ compiledData.limit = <<Num("int", 2)>>
  /\ \E k \in 1..Len(trace) : trace[k].ev = "lock" /\ trace[k].type = "limit" /\ trace[k].d = 0

----------------------------------------------------------------------------
(* C13 *)

\* the expressions of the entries of a select list that are aliased '__cursor'
CursorEntries(sel) ==
  LET es == SelectSeq(sel, LAMBDA e : e[2] = "__cursor")
  IN [i \in 1..Len(es) |-> es[i][1]]

\* C13 as claimed: select locked implies selectCursor locked, where locked
\* implies whereBound locked, and once select is locked the compiled select
\* list holds exactly one '__cursor' entry, the compiled cursor expression,
\* when that is non-null, and none when no cursor expression was registered.
C13_BuiltinWiring ==
  /\ "select" \in locks => "selectCursor" \in locks
  /\ "where" \in locks => "whereBound" \in locks
  /\ ("select" \in locks /\ compiledData.selectCursor # NULL) =>
       CursorEntries(compiledData.select) = <<compiledData.selectCursor>>
  /\ ("select" \in locks /\ data.selectCursor = NULL) =>
       CursorEntries(compiledData.select) = <<>>

\* the entry the pre-lock callback of select appends for compiled cursor c
Injected(c) == IF c # NULL THEN << <<c, "__cursor">> >> ELSE <<>>

\* C13 amended: select locked implies selectCursor locked and where locked
\* implies whereBound locked; the call that locks select appends to the draft
\* select list one entry (compiled cursor, '__cursor') when the compiled cursor
\* is non-null and nothing otherwise, after the entries callers registered
\* (their own '__cursor' aliases included); the compiled list has the aliases
\* of the draft, position by position, when its compilation completes and is
\* empty when a producer of the list raised.
C13_CursorInjectedOnLock ==
  [][/\ "select" \in locks' => "selectCursor" \in locks'
     /\ "where" \in locks' => "whereBound" \in locks'
     /\ ("select" \notin locks /\ "select" \in locks') =>
          /\ data'.select = data.select \o Injected(compiledData'.selectCursor)
          /\ \/ compiledData'.select = <<>> /\ result'.err # NoError
             \/ /\ Len(compiledData'.select) = Len(data'.select)
                /\ \A i \in 1..Len(data'.select) :
                     compiledData'.select[i][2] = data'.select[i][2]
                /\ compiledData'.selectCursor # NULL =>
                     compiledData'.select[Len(data'.select)][1]
                       = compiledData'.selectCursor]_vars

\* C13 witness: select is locked on a builder with a compiled cursor and one
\* field registered by a caller; the compiled list ends with the '__cursor'
\* entry.
C13_Witness ==
  /\ "select" \in locks
  /\ compiledData.selectCursor = "c"
  /\ Len(compiledData.select) = 2
  /\ compiledData.select[2] = <<"c", "__cursor">>
  /\ CursorEntries(compiledData.select) = <<"c">>

----------------------------------------------------------------------------
(* C14 *)

\* C14: compiled state is populated only for locked phases: the compiled value
\* of every phase that is still open is the one the constructor stored.
C14_OpenPhasesUncompiled ==
  \A P \in KnownTypes \ locks : compiledData[P] = InitCompiledData[P]

\* C14 witness: limit is locked and compiled to 2 while a cursor expression
\* is registered on the open phase selectCursor.
C14_Witness ==
  /\ "limit" \in locks
  /\ compiledData.limit = <<Num("int", 2)>>
  /\ "selectCursor" \notin locks
  /\ data.selectCursor = "c"
  /\ compiledData.selectCursor = NULL

----------------------------------------------------------------------------
(* C15 *)

\* C15: beforeLock(P, fn) fails with DoubleLock and registers nothing when P is
\* locked; otherwise it appends fn after the callbacks already registered for
\* P and changes no other callback list and nothing else of the builder.
C15_BeforeLockAppends ==
  [][result'.op = "beforeLock" =>
       LET P == result'.args[1]
           fn == result'.args[2]
       IN IF P \in locks
          THEN result'.err = DoubleLock /\ data' = data
          ELSE /\ result'.err = NoError
               /\ data' = [data EXCEPT !.beforeLock[P] = Append(@, fn)]]_vars

\* C15 witness: a callback was registered for select, after the constructor's.
C15_Witness ==
  /\ result.op = "beforeLock"
  /\ result.err = NoError
  /\ data.beforeLock["select"] = <<BuiltinSelectCb, <<"getTableAlias", "">> >>
  /\ data.beforeLock["where"] = <<BuiltinWhereCb>>

----------------------------------------------------------------------------
(* C16 *)

\* the call returned a select statement: build, without onlyJsonField
BuiltSelect ==
  result.op = "build" /\ result.err = NoError /\ ~result.args[1].onlyJsonField

\* C16: buildWhereBoundClause on an empty list returns the always-true literal,
\* buildWhereClause with no guard, no predicate and no bound requested returns
\* '1 = 1', and every select statement build returns has a WHERE clause with a
\* condition: '(TRUE) and (TRUE)' after the predicates when both bound lists
\* are empty.
C16_EmptyListsAlwaysTrue ==
  /\ (/\ result.op = "buildWhereBoundClause"
      /\ result.err = NoError
      /\ (IF result.args[1] THEN compiledData.whereBound.lower
          ELSE compiledData.whereBound.upper) = <<>>)
       => result.ret = LiteralTrue
  /\ (/\ result.op = "buildWhereClause"
      /\ result.err = NoError
      /\ result.args = <<FALSE, FALSE, FALSE>>
      /\ compiledData.where = <<>>)
       => result.ret = "1 = 1"
  /\ BuiltSelect =>
       /\ Contains(result.ret, " where (")
       /\ (compiledData.whereBound = [lower |-> <<>>, upper |-> <<>>]) =>
            Contains(result.ret, "(TRUE) and (TRUE)")
       /\ (/\ compiledData.whereBound = [lower |-> <<>>, upper |-> <<>>]
           /\ compiledData.where = <<>>
           /\ ~result.args[1].addNullCase) =>
            Contains(result.ret, " where (TRUE) and (TRUE)")

\* C16 witness: build returned a select statement for a builder with a source
\* relation and no predicate at all.
C16_Witness ==
  /\ BuiltSelect
  /\ compiledData.from # <<>>
  /\ compiledData.where = <<>>
  /\ compiledData.whereBound = [lower |-> <<>>, upper |-> <<>>]
  /\ Contains(result.ret, " where (TRUE) and (TRUE)")

----------------------------------------------------------------------------
(* C17 *)

\* calls made on a builder that is used for its ORDER BY clause
MaxSortOps == 4

\* orderBy(exprGen, ascending): two literal expressions, one ascending and one
\* descending, and a descending producer that reads the table alias
SortArgs == {<<"o", TRUE>>, <<"p", FALSE>>, <<"fn:alias", FALSE>>}

\* the sorted query: a source relation, order-by entries, flip, and the entry
\* points that compile the order-by list
NextSort ==
  \/ /\ nops < MaxSortOps
     /\ Done(Void(from(Cur, "users", "t")), "from", <<"users", "t">>)
  \/ /\ nops < MaxSortOps
     /\ \E a \in SortArgs : Done(Void(orderBy(Cur, a[1], a[2])), "orderBy", a)
  \/ /\ nops < MaxSortOps
     /\ Done(Void(flip(Cur)), "flip", <<>>)
  \/ /\ nops < MaxSortOps
     /\ Done(buildSelectFields(Cur), "buildSelectFields", <<>>)
  \/ /\ nops < MaxSortOps
     /\ \E options \in BuildOptions : Done(build(Cur, options), "build", <<options>>)

SpecSort == Init /\ [][NextSort]_vars

\* the reversal wrapper's re-sort
ReversalSort == "order by (row_number() over (partition by 1)) desc"

\* the text expected for the order-by entry registered at position i
ExpectedOrderEntry(i) ==
  Resolved(data.orderBy[i][1]) \o " "
    \o (IF data.orderBy[i][2] = data.flip THEN "DESC" ELSE "ASC")

\* the ORDER BY clause of the text build returned lists the registered entries
OrderByAsRegistered ==
  IF Len(data.orderBy) # 0
  THEN Contains(result.ret,
                " order by "
                  \o Join([i \in 1..Len(data.orderBy) |-> ExpectedOrderEntry(i)], ","))
  ELSE ~Contains(result.ret, " ASC") /\ ~Contains(result.ret, " DESC")

\* the text build returned is wrapped for reversal exactly when flip() was called
FlipWrapperApplied ==
  /\ compiledData.flip = data.flip
  /\ data.flip <=> Contains(result.ret, ReversalSort)
  /\ data.flip <=> Contains(result.ret, "with \"flip\" as ( select ")

\* C17 as claimed: in every select statement build returns, the order-by
\* entries appear in registration order, each ASC exactly when its ascending
\* flag differs from the flip flag, and the reversal wrapper is applied exactly
\* when flip() was called.
C17_OrderByEmitted == BuiltSelect => (OrderByAsRegistered /\ FlipWrapperApplied)

\* the producers of the phase's list all returned: the list was compiled whole
\* (a producer that raises leaves the phase locked with an empty compiled list)
CompiledWhole(type, slot) ==
  Len(DraftGens(compiledData, type, slot)) = Len(DraftGens(data, type, slot))

\* C17 amended: the same, for an order-by list that was compiled whole; after
\* a call in which a producer of the list raised, the list stays locked with
\* nothing compiled and a later build returns a statement with no ORDER BY
\* entry. The reversal wrapper is applied exactly when flip() was called.
C17_OrderByAndFlip ==
  BuiltSelect =>
    /\ FlipWrapperApplied
    /\ IF CompiledWhole("orderBy", "") THEN OrderByAsRegistered
       ELSE /\ compiledData.orderBy = <<>>
            /\ ~Contains(result.ret, " ASC")
            /\ ~Contains(result.ret, " DESC")

\* C17 witness: build on a flipped builder ordered by an ascending and then
\* a descending expression emits the first descending and the second
\* ascending, in this order, inside the reversal wrapper.
C17_Witness ==
  /\ BuiltSelect
  /\ data.flip
  /\ data.orderBy = << <<"o", TRUE>>, <<"p", FALSE>> >>
  /\ Contains(result.ret,
              " order by o DESC,p ASC ) select * from \"flip\" " \o ReversalSort)

\* build on a builder that was not flipped emits a descending producer's
\* result and an ascending expression as registered, with no reversal wrapper
C17_UnflippedOrder ==
  /\ BuiltSelect
  /\ ~data.flip
  /\ data.orderBy = << <<"fn:alias", FALSE>>, <<"o", TRUE>> >>
  /\ Contains(result.ret, " order by t.c DESC,o ASC")
  /\ ~Contains(result.ret, ReversalSort)

----------------------------------------------------------------------------
(* C18 *)

\* the numbers limit(n) and offset(n) are called with where pagination is
\* examined: safe integers, 1.5, 2^53, Infinity, -Infinity and NaN
JsNumbers ==
  Numbers \cup {Num("half", 3), Num("big", 1), Num("inf", 1), Num("inf", -1),
                Num("nan", 0)}

\* pagination: limit, offset and flip, the offset accessor, and the entry
\* points that lock every phase
NextPage ==
  \/ /\ nops < MaxOps
     /\ \E n \in JsNumbers : Done(Void(limit(Cur, n)), "limit", <<n>>)
  \/ /\ nops < MaxOps
     /\ \E n \in JsNumbers : Done(Void(offset(Cur, n)), "offset", <<n>>)
  \/ Flip
  \/ GetOffset
  \/ LockEverything
  \/ Build

SpecPage == Init /\ [][NextPage]_vars

\* a limit(n) or offset(n) call got past its check and wrote the draft
Configured(field) == data[field] # <<>>

\* an integer, inside the safe range or not
IsInteger(n) == n.kind \in {"int", "big"}

\* a number below zero
Negative(n) == n.kind # "nan" /\ n.v < 0

\* C18 as stated: for every integer n, a limit(n) or offset(n) call that
\* returned leaves max(0, n) compiled; getOffset returns the compiled offset,
\* and 0 when offset() was never called; a select statement build returns has
\* a LIMIT clause with the compiled limit (LIMIT 0 included) whenever limit()
\* was called with an integer, has no LIMIT clause when limit() was never
\* called and no OFFSET clause when offset() was never called, and never a
\* negative LIMIT or OFFSET.
C18_LimitOffsetClamped ==
  /\ (result.op \in {"limit", "offset"} /\ result.err = NoError
        /\ IsInteger(result.args[1])) =>
       /\ compiledData[result.op] = <<Max0(result.args[1])>>
       /\ ~Negative(compiledData[result.op][1])
  /\ (result.op = "getOffset" /\ result.err = NoError
        /\ (Configured("offset") => IsInteger(data.offset[1]))) =>
       result.ret = (IF Configured("offset") THEN compiledData.offset[1]
                                              ELSE Num("int", 0))
  /\ BuiltSelect =>
       /\ (Configured("limit") /\ IsInteger(data.limit[1])) =>
            Contains(result.ret, " limit " \o LiteralNum(compiledData.limit[1]))
       /\ Configured("limit") \/ ~Contains(result.ret, " limit ")
       /\ Configured("offset") \/ ~Contains(result.ret, " offset ")
       /\ ~Contains(result.ret, " limit -")
       /\ ~Contains(result.ret, " offset -")

\* C18: for every integer n, a limit(n) or offset(n) call that returned
\* leaves max(0, n) compiled; getOffset returns the compiled offset, and 0
\* when offset() was never called; a select statement build returns has a
\* LIMIT clause, with the compiled limit (LIMIT 0 included), exactly when the
\* compiled limit is a safe integer, so none for 2^53; it has no OFFSET clause
\* when offset() was never called and an OFFSET clause with the compiled
\* offset when that is a positive safe integer; and never a negative LIMIT or
\* OFFSET.
C18_LimitSafeInteger ==
  /\ (result.op \in {"limit", "offset"} /\ result.err = NoError
        /\ IsInteger(result.args[1])) =>
       /\ compiledData[result.op] = <<Max0(result.args[1])>>
       /\ ~Negative(compiledData[result.op][1])
  /\ (result.op = "getOffset" /\ result.err = NoError
        /\ (Configured("offset") => IsInteger(data.offset[1]))) =>
       result.ret = (IF Configured("offset") THEN compiledData.offset[1]
                                              ELSE Num("int", 0))
  /\ BuiltSelect =>
       /\ IF Configured("limit") /\ isSafeInteger(compiledData.limit[1])
          THEN Contains(result.ret, " limit " \o ToString(compiledData.limit[1].v))
          ELSE ~Contains(result.ret, " limit ")
       /\ Configured("offset") \/ ~Contains(result.ret, " offset ")
       /\ (Configured("offset") /\ isSafeInteger(compiledData.offset[1])
             /\ compiledData.offset[1].v > 0) =>
            Contains(result.ret, " offset " \o ToString(compiledData.offset[1].v))
       /\ ~Contains(result.ret, " limit -")
       /\ ~Contains(result.ret, " offset -")

\* C18 witness: build after a limit clamped to zero and an offset of two
\* returns a statement ending in 'limit 0 offset 2'.
C18_Witness ==
  /\ BuiltSelect
  /\ ~data.flip
  /\ ~result.args[1].asJsonAggregate
  /\ data.limit = <<Num("int", 0)>>
  /\ data.offset = <<Num("int", 2)>>
  /\ Contains(result.ret, " where (TRUE) and (TRUE) limit 0 offset 2")

\* build after limit(2^53) returns a select statement with no LIMIT clause
C18_UnsafeLimitDropped ==
  /\ BuiltSelect
  /\ data.limit = <<Num("big", 1)>>
  /\ ~Contains(result.ret, " limit ")

----------------------------------------------------------------------------
(* C19 *)

\* calls made on a builder that is used for its WHERE condition
MaxWhereOps == 5

\* whereBound(exprGen, isLower): every predicate for either list, so that a
\* list holds different predicates in either order, and an isLower that is
\* not a boolean
BoundArgs ==
  {<<g, isLower>> : g \in {"b", "fn:const", "fn:alias"}, isLower \in {"true", "false"}}
    \cup {<<"b", "undefined">>}

\* the condition builder: a source relation, plain and bound predicates, and
\* the two clause compilers, in any interleaving
NextWhere ==
  \/ /\ nops < MaxWhereOps
     /\ Done(Void(from(Cur, "users", "t")), "from", <<"users", "t">>)
  \/ /\ nops < MaxWhereOps
     /\ \E g \in SqlGens : Done(Void(where(Cur, g)), "where", <<g>>)
  \/ /\ nops < MaxWhereOps
     /\ \E a \in BoundArgs :
          Done(Void(whereBound(Cur, a[1], a[2])), "whereBound", a)
  \/ /\ nops < MaxWhereOps
     /\ \E isLower \in BOOLEAN :
          Done(buildWhereBoundClause(Cur, isLower), "buildWhereBoundClause", <<isLower>>)
  \/ /\ nops < MaxWhereOps
     /\ \E lower \in BOOLEAN, upper \in BOOLEAN, addNullCase \in BOOLEAN :
          Done(buildWhereClause(Cur, lower, upper, addNullCase), "buildWhereClause",
               <<lower, upper, addNullCase>>)

SpecWhere == Init /\ [][NextWhere]_vars

\* the predicates of a registered list, each producer replaced by its result
ResolvedList(gens) == [i \in 1..Len(gens) |-> Resolved(gens[i])]

\* the conditions buildWhereClause(lower, upper, {addNullCase}) joins, given
\* the plain predicates and the two bound lists
WhereSequence(lower, upper, addNullCase, plain, lowerList, upperList) ==
  (IF addNullCase THEN <<"not (" \o compiledData.from[2] \o " is null)">> ELSE <<>>)
    \o plain
    \o (IF lower THEN <<BoundClauseSql(lowerList)>> ELSE <<>>)
    \o (IF upper THEN <<BoundClauseSql(upperList)>> ELSE <<>>)

\* a whereBound(g, isLower) call that returned appended g to the list isLower
\* names and left the other list alone
BoundsKeptApart ==
  (result'.op = "whereBound" /\ result'.err = NoError) =>
    LET mine == IF result'.args[2] = "true" THEN "lower" ELSE "upper"
        other == IF result'.args[2] = "true" THEN "upper" ELSE "lower"
    IN /\ data'.whereBound[mine] = Append(data.whereBound[mine], result'.args[1])
       /\ data'.whereBound[other] = data.whereBound[other]

\* the text the two clause compilers return is the one of the registered lists
WhereOfRegistered ==
  /\ (result.op = "buildWhereClause" /\ result.err = NoError) =>
       result.ret = WhereClauseSql(
         WhereSequence(result.args[1], result.args[2], result.args[3],
                       ResolvedList(data.where),
                       ResolvedList(data.whereBound.lower),
                       ResolvedList(data.whereBound.upper)))
  /\ (result.op = "buildWhereBoundClause" /\ result.err = NoError) =>
       result.ret = BoundClauseSql(
         ResolvedList(IF result.args[1] THEN data.whereBound.lower
                      ELSE data.whereBound.upper))

\* C19 as claimed: buildWhereClause joins with AND the guard iff addNullCase,
\* then every registered where predicate in registration order, then the lower
\* clause iff includeLower, then the upper clause iff includeUpper; a bound
\* clause is the AND of its list's predicates in registration order, and a
\* predicate registered as lower never enters the upper list, nor the reverse.
C19_WhereOfRegistered == [][BoundsKeptApart]_vars /\ []WhereOfRegistered

\* a producer of the list reads the table alias of a builder without a
\* source relation, and raises
Raises(gens) ==
  compiledData.from = <<>> /\ \E i \in 1..Len(gens) : gens[i] = "fn:alias"

\* the compilation of the list was cut short: one of its producers raised, or,
\* for the upper bound list, one of the lower list, which is compiled first
CutShort(type, slot) ==
  \/ Raises(DraftGens(data, type, slot))
  \/ type = "whereBound" /\ slot = "upper" /\ Raises(data.whereBound.lower)

\* the text the two clause compilers return is the one of the compiled lists,
\* and a compiled list holds its registered predicates resolved, or nothing
\* when its compilation was cut short
WhereOfCompiled ==
  /\ (result.op = "buildWhereClause" /\ result.err = NoError) =>
       result.ret = WhereClauseSql(
         WhereSequence(result.args[1], result.args[2], result.args[3],
                       compiledData.where,
                       compiledData.whereBound.lower,
                       compiledData.whereBound.upper))
  /\ (result.op = "buildWhereBoundClause" /\ result.err = NoError) =>
       result.ret = BoundClauseSql(IF result.args[1] THEN compiledData.whereBound.lower
                                   ELSE compiledData.whereBound.upper)
  /\ \A x \in {<<"where", "">>, <<"whereBound", "lower">>, <<"whereBound", "upper">>} :
       x[1] \in locks =>
         IF CutShort(x[1], x[2]) THEN DraftGens(compiledData, x[1], x[2]) = <<>>
         ELSE CompiledFrom(x[1], x[2])

\* C19 amended: the same sequence, over the lists as compiled.  A compiled
\* list holds the registered predicates of its own list in registration
\* order, except that it is empty when its compilation was cut short in an
\* earlier call: by a producer of that list that raised, or, for the upper
\* list, by a producer of the lower list, which is compiled first.  When a
\* producer of the upper list raises, the lower list stays compiled.
C19_WhereOfCompiled == [][BoundsKeptApart]_vars /\ []WhereOfCompiled

\* C19 witness: with a guard, two predicates in the lower list and one in the
\* upper list, buildWhereClause(true, true, {addNullCase: true}) returned the
\* guard, the lower clause and the upper clause, each list in registration
\* order.
C19_Witness ==
  /\ result.op = "buildWhereClause"
  /\ result.args = <<TRUE, TRUE, TRUE>>
  /\ data.whereBound.lower = <<"fn:alias", "b">>
  /\ data.whereBound.upper = <<"fn:const">>
  /\ data.where = <<>>
  /\ result.ret = "(not (t is null)) and ((t.c) and (b)) and ((k))"

\* after a producer of the upper list raised, buildWhereClause(true, false, {})
\* still returns the lower clause, and buildWhereBoundClause(false) returns
\* the always-true literal
C19_LowerKept ==
  /\ result.op = "buildWhereClause"
  /\ result.args = <<TRUE, FALSE, FALSE>>
  /\ data.whereBound.lower = <<"b">>
  /\ data.whereBound.upper = <<"fn:alias">>
  /\ compiledData.whereBound.upper = <<>>
  /\ result.ret = "((b))"

----------------------------------------------------------------------------
(* C20 *)

\* the call returned the JSON expression alone: buildSelectJson, or build with
\* onlyJsonField
BuiltJson ==
  /\ result.err = NoError
  /\ \/ result.op = "buildSelectJson"
     \/ result.op = "build" /\ result.args[1].onlyJsonField

\* the addNullCase option of that call
AddNullCase ==
  IF result.op = "build" THEN result.args[1].addNullCase ELSE result.args[1]

\* 'alias', expression for each compiled pair, in the order of the list
JsonPairs(sel) ==
  Join([i \in 1..Len(sel) |-> "'" \o sel[i][2] \o "', " \o sel[i][1]], ", ")

\* the JSON object over the compiled pairs, or the whole row when there is none
JsonShape ==
  IF Len(compiledData.select) # 0
  THEN "json_build_object(" \o JsonPairs(compiledData.select) \o ")"
  ELSE "to_json(" \o compiledData.from[2] \o ".*)"

\* C20: buildSelectJson and build({onlyJsonField: true}) return the JSON object
\* over the compiled (alias, expression) pairs in registration order, or
\* to_json(alias.*) when no field is compiled; with addNullCase the shape is
\* wrapped in 'case when alias is null then null else ... end', without it
\* there is no such wrapper; and with onlyJsonField the text has no SELECT, no
\* flip wrapper and no aggregate wrapper, whatever the other options.
C20_JsonShape ==
  BuiltJson =>
    /\ result.ret =
         (IF AddNullCase
          THEN "(case when " \o compiledData.from[2] \o " is null then null else "
                 \o JsonShape \o " end)"
          ELSE JsonShape)
    /\ AddNullCase \/ ~Contains(result.ret, "case when")
    /\ ~Contains(result.ret, "select ")
    /\ ~Contains(result.ret, "\"flip\"")
    /\ ~Contains(result.ret, "json_agg")
    /\ ~Contains(result.ret, " as object")

\* C20 witness: build with onlyJsonField, asJsonAggregate and addNullCase on a
\* builder with one selected field returned the wrapped JSON object alone.
C20_Witness ==
  /\ result.op = "build"
  /\ result.args[1] = [asJson |-> FALSE, asJsonAggregate |-> TRUE,
                       onlyJsonField |-> TRUE, addNullCase |-> TRUE]
  /\ data.select = << <<"a", "x">> >>
  /\ result.ret = "(case when t is null then null else json_build_object('x', a) end)"

----------------------------------------------------------------------------
(* C21 *)

\* C21: every lock request for a phase name outside the recognised set fails
\* with the unknown-phase error, the first request and every repeated one
\* (stated for a name under which no pre-lock callback is registered, so that
\* nothing else can fail first).
C21_UnknownPhaseRejected ==
  (/\ result.op = "lock"
   /\ result.args[1] \notin KnownTypes
   /\ data.beforeLock[result.args[1]] = <<>>) => result.err = UnknownPhase

----------------------------------------------------------------------------
(* C22 *)

\* every public call of the builder, in any interleaving
NextAll ==
  \/ BeforeLock
  \/ SetCursorComparator
  \/ CursorCondition
  \/ Select
  \/ SelectCursor
  \/ From
  \/ Where
  \/ WhereBound
  \/ SetOrderIsUnique
  \/ OrderBy
  \/ Limit
  \/ Offset
  \/ Flip
  \/ IsOrderUnique
  \/ GetTableAlias
  \/ GetSelectCursor
  \/ GetOffset
  \/ GetOrderByExpressionsAndDirections
  \/ BuildSelectFields
  \/ BuildSelectJson
  \/ BuildWhereBoundClause
  \/ BuildWhereClause
  \/ Build
  \/ Lock
  \/ LockEverything

SpecAll == Init /\ [][NextAll]_vars

\* a call leaves every phase that was locked before it locked, with the
\* compiled value it had
Frozen ==
  \A P \in locks :
    /\ P \in locks'
    /\ P \in KnownTypes => compiledData'[P] = compiledData[P]

\* the phase an accessor locks and reads
PhaseOfAccessor(op) ==
  CASE op = "getTableAlias" -> "from"
    [] op = "getSelectCursor" -> "selectCursor"
    [] op = "getOffset" -> "offset"
    [] op = "getOrderByExpressionsAndDirections" -> "orderBy"
    [] op = "isOrderUnique" -> "orderIsUnique"

\* the value an accessor returns, read off the compiled value of its phase
ValueOfAccessor(op) ==
  CASE op = "getTableAlias" -> compiledData.from[2]
    [] op = "getOffset" ->
         (IF compiledData.offset = <<>> \/ Falsy(compiledData.offset[1])
          THEN Num("int", 0)
          ELSE compiledData.offset[1])
    [] OTHER -> compiledData[PhaseOfAccessor(op)]

AccessorOps ==
  {"getTableAlias", "getSelectCursor", "getOffset",
   "getOrderByExpressionsAndDirections", "isOrderUnique"}

\* an accessor that returned has its phase locked and returned the value
\* compiled for it
AccessorReadsCompiled ==
  (result.op \in AccessorOps /\ result.err = NoError) =>
    /\ PhaseOfAccessor(result.op) \in locks
    /\ result.ret = ValueOfAccessor(result.op)

\* C22: a locked phase stays locked and its compiled value never changes
\* again, whatever call follows; an accessor that returns reads that compiled
\* value of its locked phase, so any two calls of one accessor that return,
\* return the same value.
C22_FrozenForever == [][Frozen]_vars /\ []AccessorReadsCompiled

\* C22 witness: isOrderUnique returned false although the draft flag was set
\* in between: the flag was compiled, and frozen, by an earlier read.
C22_Witness ==
  /\ result.op = "isOrderUnique"
  /\ result.err = NoError
  /\ result.ret = FALSE
  /\ data.orderIsUnique = TRUE

----------------------------------------------------------------------------
(* C23 *)

\* the errors a mutator raises from its own checks, before it writes
GuardErrors == {DoubleLock, NoFromSource, NoFromAlias, IsLowerNotBoolean}

\* C23: a mutator call (beforeLock included) that fails on a locked phase, on
\* a missing from source or alias, or on an isLower that is no boolean, leaves
\* the locks, the draft (pre-lock callback lists included) and the compiled
\* data exactly as they were before the call.
C23_FailedMutatorChangesNothing ==
  [][(/\ result'.op \in MutatorOps \cup {"beforeLock"}
      /\ result'.err \in GuardErrors)
       => UNCHANGED <<locks, finalized, data, compiledData>>]_vars

\* C23 witness: from() was rejected on a phase that a failed getTableAlias had
\* locked, and the draft still has no source relation.
C23_Witness ==
  /\ result.op = "from"
  /\ result.args = <<"users", "t">>
  /\ result.err = DoubleLock
  /\ "from" \in locks
  /\ data.from = <<>>
  /\ compiledData.from = <<>>

----------------------------------------------------------------------------
(* C24 *)

\* getTableAlias just failed for lack of a source relation
AliasReadFailed == result.op = "getTableAlias" /\ result.err = NoFromTable

\* cursorCondition just failed for lack of a comparator
CursorReadFailed == result.op = "cursorCondition" /\ result.err = NoCursorComparator

\* the phase stays locked across a call, and the call, when it is the
\* phase's mutator op, is rejected
StaysLockedAgainst(P, op) ==
  P \in locks => (P \in locks' /\ (result'.op = op => result'.err = DoubleLock))

\* C24: a failing read still freezes its phase.  When getTableAlias fails with
\* 'No from table has been supplied', from is locked with no source compiled,
\* and when cursorCondition fails for lack of a comparator, cursorComparator
\* is locked; a locked phase stays locked, and every from(), respectively
\* setCursorComparator, made while it is locked fails with DoubleLock.
C24_FailedReadFreezes ==
  /\ [](AliasReadFailed => ("from" \in locks /\ compiledData.from = <<>>))
  /\ [](CursorReadFailed => "cursorComparator" \in locks)
  /\ [][/\ StaysLockedAgainst("from", "from")
        /\ StaysLockedAgainst("cursorComparator", "setCursorComparator")]_vars

\* C24 witness: from() with a valid source and alias was rejected, on a
\* builder whose from phase a failed read locked with nothing compiled.
C24_Witness ==
  /\ result.op = "from"
  /\ result.args = <<"fn:const", "t">>
  /\ result.err = DoubleLock
  /\ compiledData.from = <<>>
  /\ \E k \in 1..Len(trace) : trace[k].ev = "lock" /\ trace[k].type = "from"
  /\ \A k \in 1..Len(trace) : trace[k].ev # "gen"

----------------------------------------------------------------------------
(* C25 *)

\* configure, then finalize any number of times: mutators called with valid
\* arguments, pre-lock registrations, and the four finalizing calls
NextFinal ==
  \/ BeforeLock
  \/ Select
  \/ SelectCursor
  \/ /\ nops < MaxOps
     /\ \E g \in {"users", "fn:const"} : Done(Void(from(Cur, g, "t")), "from", <<g, "t">>)
  \/ Where
  \/ OrderBy
  \/ LockEverything
  \/ BuildSelectFields
  \/ BuildSelectJson
  \/ Build

SpecFinal == Init /\ [][NextFinal]_vars

\* a finalizing call has locked every phase of lockEverything
Finalized == finalized /\ FinalizedTypes \subseteq locks

\* C25: a finalizing call made on a finalized builder is not rejected as a
\* repeat, changes no lock, draft or compiled state, invokes no pre-lock
\* callback and no deferred producer (the history of invocations is
\* unchanged), and, when it repeats with the same options a call that returned
\* normally just before it, returns normally with the same text.
C25_FinalizeIdempotent ==
  [][(Finalized /\ result'.op \in FinalizerOps) =>
       /\ UNCHANGED <<locks, finalized, data, compiledData, trace>>
       /\ result'.err \in {NoError, NoFromTable}
       /\ result'.op = "lockEverything" => result'.err = NoError
       /\ (result.op = result'.op /\ result.args = result'.args
             /\ result.err = NoError) =>
            (result'.err = NoError /\ result'.ret = result.ret)]_vars

\* C25 witness: the second of two calls made on a new builder is build; the
\* first changed no draft, so it was a finalizing call too; build returned,
\* and each built-in pre-lock callback has run once in all.
C25_Witness ==
  /\ nops = 2
  /\ data = ConstructedData
  /\ result.op = "build"
  /\ result.err = NoError
  /\ Finalized
  /\ Cardinality({k \in 1..Len(trace) : trace[k].ev = "cb"}) = 2

----------------------------------------------------------------------------
(* C26 *)

\* the phases a call asked to lock: the one of lock(P), the ten of a build
Requested ==
  IF result.op = "lock" THEN {result.args[1]} \cap KnownTypes
  ELSE IF result.op = "build" THEN {LockOrder[i] : i \in 1..Len(LockOrder)}
  ELSE {}

\* C26: lock(P) and build terminate with the requested phases locked, also
\* when a pre-lock callback calls a builder operation that locks a phase, the
\* one being locked included.  The callbacks considered call lock("select")
\* or getTableAlias() on a builder that has a source relation, so none raises
\* by itself; a request that never terminates ends in the stack overflow.
C26_LockTerminates ==
  (Requested # {} /\ compiledData.from # <<>>) =>
    (result.err = NoError /\ Requested \subseteq locks)

----------------------------------------------------------------------------
(* C27 *)

\* inputs of the resolver and answers of the database client
MutationIds == {"m1", "m2", UNDEFINED}
Rows == {"row1", "row2"}
ErrorCodes == {"23505", "57014"}

\* the builder takes no part in the resolver's steps
BuilderIdle == UNCHANGED <<locks, finalized, data, compiledData, trace, result, nops>>

\* pgClient.query(cmd) is called: the command is handed to the client, and
\* the resolver is suspended at the await named wait until the client answers
Issue(m, cmd, wait) == [m EXCEPT !.log = Append(@, cmd), !.pc = wait]

\* the client's answer to the awaited command, the last one handed to it,
\* resumes the resolver
Answered(m) == [m EXCEPT !.answered = Append(@, m.log[Len(m.log)])]

\* the awaited command was rejected inside the try block: the catch block
\* binds the error and calls pgClient.query with the ROLLBACK in the same run
Catch(m, code) ==
  Issue([Answered(m) EXCEPT !.caught = [at |-> m.log[Len(m.log)], code |-> code]],
        "ROLLBACK TO SAVEPOINT graphql_mutation", "rollback")

\* resolve(data, { input }, { pgClient }) is invoked and runs up to its first
\* await: pgClient.query("SAVEPOINT graphql_mutation") is called
StartResolve ==
  /\ mutation.pc = "idle"
  /\ \E id \in MutationIds :
       mutation' = Issue([mutation EXCEPT !.clientMutationId = id],
                         "SAVEPOINT graphql_mutation", "savepoint")
  /\ BuilderIdle

\* the answer to SAVEPOINT arrives: viaTemporaryTable(...) is called, or the
\* rejection is caught
Savepoint ==
  /\ mutation.pc = "savepoint"
  /\ \E code \in ErrorCodes \cup {""} :
       mutation' = IF code = ""
                   THEN Issue(Answered(mutation), "insert", "query")
                   ELSE Catch(mutation, code)
  /\ BuilderIdle

\* viaTemporaryTable(...) settles: row = result.rows[0] and
\* pgClient.query("RELEASE SAVEPOINT graphql_mutation") is called, or the
\* rejection is caught
MutationQuery ==
  /\ mutation.pc = "query"
  /\ \E code \in ErrorCodes \cup {""}, row \in Rows :
       mutation' = IF code = ""
                   THEN Issue([Answered(mutation) EXCEPT !.row = row],
                              "RELEASE SAVEPOINT graphql_mutation", "release")
                   ELSE Catch(mutation, code)
  /\ BuilderIdle

\* the answer to RELEASE arrives: the resolver returns
\* { clientMutationId: input.clientMutationId, data: row }, or the rejection
\* is caught
Release ==
  /\ mutation.pc = "release"
  /\ \E code \in ErrorCodes \cup {""} :
       mutation' =
         IF code = ""
         THEN [Answered(mutation)
                 EXCEPT !.pc = "done", !.outcome = "returned",
                        !.payload = <<mutation.clientMutationId, mutation.row>>]
         ELSE Catch(mutation, code)
  /\ BuilderIdle

\* the answer to ROLLBACK arrives inside the catch block: throw e, or the
\* ROLLBACK's own rejection leaves the resolver
Rollback ==
  /\ mutation.pc = "rollback"
  /\ \E code \in ErrorCodes \cup {""} :
       mutation' =
         [Answered(mutation)
            EXCEPT !.pc = "done", !.outcome = "threw",
                   !.thrown = IF code = ""
                              THEN mutation.caught
                              ELSE [at |-> "ROLLBACK TO SAVEPOINT graphql_mutation",
                                    code |-> code]]
  /\ BuilderIdle

NextMutation ==
  \/ StartResolve
  \/ Savepoint
  \/ MutationQuery
  \/ Release
  \/ Rollback

SpecMutation == Init /\ [][NextMutation]_vars

\* how many times the command was issued
Issued(cmd) ==
  Cardinality({k \in 1..Len(mutation.log) : mutation.log[k] = cmd})

\* C27: SAVEPOINT graphql_mutation is issued before the mutation query.  When
\* the resolver has finished and nothing failed inside the try block, exactly
\* one RELEASE SAVEPOINT and no ROLLBACK was issued and the payload with the
\* row was returned.  When SAVEPOINT, the mutation query or RELEASE failed,
\* exactly one ROLLBACK TO SAVEPOINT graphql_mutation was issued, after them,
\* and the resolver threw the original error and returned no payload.
C27_SavepointProtocol ==
  /\ Issued("insert") > 0 => mutation.log[1] = "SAVEPOINT graphql_mutation"
  /\ (mutation.pc = "done" /\ mutation.caught = NoFailure) =>
       /\ Issued("RELEASE SAVEPOINT graphql_mutation") = 1
       /\ Issued("ROLLBACK TO SAVEPOINT graphql_mutation") = 0
       /\ mutation.outcome = "returned"
       /\ mutation.payload = <<mutation.clientMutationId, mutation.row>>
  /\ (mutation.pc = "done" /\ mutation.caught # NoFailure) =>
       /\ Issued("ROLLBACK TO SAVEPOINT graphql_mutation") = 1
       /\ mutation.log[Len(mutation.log)] = "ROLLBACK TO SAVEPOINT graphql_mutation"
       /\ mutation.outcome = "threw"
       /\ mutation.thrown = mutation.caught
       /\ mutation.payload = <<>>

----------------------------------------------------------------------------
(* C28 *)

\* items of one orderBy argument
MaxItems == 2

\* an orderBy item { alias, specs: ["c", true], unique }: the alias is null,
\* empty or not, the one ordered column is named by a string
OrderByItems == [alias : {NULL, "", "a", "b"}, unique : BOOLEAN]

\* the orderBy argument of the edge field: absent, or a list of items
EdgeOrderBys ==
  {[given |-> FALSE, items |-> <<>>]}
    \cup {[given |-> TRUE, items |-> its] :
            its \in UNION {[1..n -> OrderByItems] : n \in 0..MaxItems}}

\* a value is truthy as JavaScript tests it: neither null nor the empty string
Truthy(alias) == alias # NULL /\ alias # ""

\* `${queryBuilder.getTableAlias()}.${sql.identifier(col)}` appended to acc
PushColumn(s, acc, col) ==
  Then(getTableAlias(s, 0), LAMBDA s1 :
    Return(s1, [acc EXCEPT !.expressions = Append(@, s1.ret \o "." \o Identifier(col))]))

RECURSIVE EachItem(_, _, _, _)
\* orderBy.forEach(item => ...), from item i on; acc is the aliases, the
\* expressions and the unique flag so far, returned in ret
EachItem(s, items, i, acc) ==
  IF i > Len(items) THEN Return(s, acc)
  ELSE Then(PushColumn(s, [acc EXCEPT !.unique = @ \/ items[i].unique], "c"),
            LAMBDA s1 :
         EachItem(s1, items, i + 1,
                  IF items[i].alias = NULL THEN s1.ret
                  ELSE [s1.ret EXCEPT !.aliases = Append(@, items[i].alias)]))

\* withQueryBuilder(queryBuilder, { parsedResolveInfoFragment }) of the edge
\* field, for a table with the primary key "id"
withQueryBuilder(s, rawOrderBy) ==
  IF ~rawOrderBy.given THEN s
  ELSE Then(EachItem(s, rawOrderBy.items, 1,
                     [aliases |-> <<>>, expressions |-> <<>>, unique |-> FALSE]),
            LAMBDA s1 :
         Then(IF s1.ret.unique THEN s1 ELSE PushColumn(s1, s1.ret, "id"), LAMBDA s2 :
           IF Len(s2.ret.aliases) = 0 THEN s2
           ELSE select(s2,
                       "json_build_array("
                         \o Join([k \in 1..Len(s2.ret.aliases) |->
                                    Literal(s2.ret.aliases[k]) \o "::text"], ", ")
                         \o ", json_build_array(" \o Join(s2.ret.expressions, ", ")
                         \o "))",
                       "__order_" \o Join(s2.ret.aliases, "__"))))

\* the columns of the edge row the query returns: one per selected alias
EdgeColumns(s) == {s.data.select[i][2] : i \in 1..Len(s.data.select)}

\* resolve(data, { orderBy: rawOrderBy }) of the edge field, on a row that carries its
\* __identifiers: the key read for the cursor ("" for the primary-key
\* fallback) and the cursor returned
resolveEdge(s, rawOrderBy) ==
  LET order == IF rawOrderBy.given
               THEN SelectSeq(rawOrderBy.items, LAMBDA item : Truthy(item.alias))
               ELSE <<>>
      key == "__order_" \o Join([k \in 1..Len(order) |-> order[k].alias], "__")
  IN IF Len(order) = 0 THEN Return(s, <<"", "primary_key_asc">>)
     ELSE Return(s, <<key, IF key \in EdgeColumns(s) THEN "edge." \o key ELSE UNDEFINED>>)

WithQueryBuilder ==
  /\ nops < MaxOps
  /\ \E rawOrderBy \in EdgeOrderBys :
       Done(Void(withQueryBuilder(Cur, rawOrderBy)), "withQueryBuilder", <<rawOrderBy>>)

\* the field is resolved with the arguments the query was planned with
ResolveEdge ==
  /\ nops < MaxOps
  /\ result.op = "withQueryBuilder"
  /\ result.err = NoError
  /\ Done(resolveEdge(Cur, result.args[1]), "resolveEdge", result.args)

\* the edge field of a mutation payload: the query is given its source
\* relation, planned by withQueryBuilder, and the field resolved
NextEdge ==
  \/ /\ nops < MaxOps
     /\ Done(Void(from(Cur, "users", "t")), "from", <<"users", "t">>)
  \/ WithQueryBuilder
  \/ ResolveEdge

SpecEdge == Init /\ [][NextEdge]_vars

\* the '__order_' columns withQueryBuilder selected
OrderColumns ==
  {c \in EdgeColumns([data |-> data]) : Len(c) >= 8 /\ SubSeq(c, 1, 8) = "__order_"}

\* C28: for every orderBy argument, resolve reads the key '__order_' + aliases
\* joined by '__' exactly when withQueryBuilder selected a column under that
\* same name, and falls back to the primary-key cursor exactly when
\* withQueryBuilder selected no '__order_' column.
C28_EdgeKeyAgrees ==
  result.op = "resolveEdge" =>
    IF OrderColumns = {} THEN result.ret = <<"", "primary_key_asc">>
    ELSE result.ret[1] \in OrderColumns

====
